---- MODULE Spec2Model ----
(***************************************************************************)
(* Service-node group handlers of HSDS (src/hsds/group_sn.py): GET_Group,  *)
(* POST_Group and DELETE_Group, run as coroutines of one service-node      *)
(* process against the data-node storage tier.                             *)
(*                                                                         *)
(* A coroutine runs without interruption from one network await to the    *)
(* next.  Every network call is two steps: the callee executes the call    *)
(* (one atomic step on the storage state), and later the coroutine resumes *)
(* with the response and runs up to its next call.  A lookup that hits a   *)
(* process-local cache performs no call and does not suspend.              *)
(***************************************************************************)
EXTENDS Integers, Sequences, FiniteSets, TLC

VARIABLES
    allow_noauth,   \* app['allow_noauth']
    dn_domain,      \* storage: the record of the domain "/d1"
    dn_root,        \* storage: object id -> its root id, NoId when the object is absent
    dn_links,       \* storage: group id -> link name -> target id (NoId: no such link)
    domain_cache,   \* service node: cached domain record (NotCached when absent)
    meta_cache,     \* service node: app['meta_cache'], id -> cached root (NoId: no entry)
    req,            \* the coroutines: slot -> request record
    minted,         \* number of identities createObjId has handed out
    nreq,           \* requests started so far
    nchg            \* domain changes so far

vars == <<allow_noauth, dn_domain, dn_root, dn_links, domain_cache, meta_cache,
          req, minted, nreq, nchg>>

-----------------------------------------------------------------------------
\* Bounds of the model.

MaxPathLen == 3
MaxRequests == 2
MaxDomainChanges == 1
NumSlots == 2
MaxRetries == 1
MaxAliasRequests == 1

-----------------------------------------------------------------------------
\* Identities, names, users.

NoId == "none"
MissingId == ""
NoRootKey == ""
RootA == "g-r1"
RootB == "g-r2"
GrpA == "g-a"
GrpZ == "g-z"
DsetX == "d-x"
BadId == "bad"
NewIds == <<"g-n1", "g-n2">>

GroupIds == {RootA, RootB, GrpA, GrpZ} \cup {NewIds[i] : i \in 1..Len(NewIds)}
DatasetIds == {DsetX}
ObjIds == GroupIds \cup DatasetIds

Names == {"a", "b"}
Chars == {"/"} \cup Names

Slots == 1..NumSlots

NoUser == "nobody"
Users == {"alice", "bob"}
Actions == {"read", "create", "update", "delete", "readACL", "updateACL"}
NoEntry == {"noentry"}
AclUsers == {"bob", "default"}

ValidDomain == "/d1"
Domains == {ValidDomain, "d1"}

-----------------------------------------------------------------------------
\* Pure helpers.

isValidUuid(id, kind) ==
    IF kind = "Group" THEN id \in GroupIds ELSE id \in ObjIds

isValidDomain(domain) == domain = ValidDomain

\* authorize: owner, then the user's own entry, then the default entry, else deny.
aclCheck(dj, action, username) ==
    IF username = dj.owner THEN TRUE
    ELSE IF username \in AclUsers /\ dj.acls[username] # NoEntry
         THEN action \in dj.acls[username]
    ELSE IF dj.acls["default"] # NoEntry THEN action \in dj.acls["default"]
    ELSE FALSE

RECURSIVE SplitFrom(_, _, _)
SplitFrom(s, i, cur) ==
    IF i > Len(s) THEN (IF cur = <<>> THEN <<>> ELSE <<cur>>)
    ELSE IF s[i] = "/"
         THEN (IF cur = <<>> THEN <<>> ELSE <<cur>>) \o SplitFrom(s, i + 1, <<>>)
         ELSE SplitFrom(s, i + 1, Append(cur, s[i]))

\* h5path.split('/') with the empty segments skipped.
SplitPath(s) == SplitFrom(s, 1, <<>>)

RECURSIVE SeqsUpTo(_, _)
SeqsUpTo(S, n) ==
    IF n = 0 THEN {<<>>}
    ELSE LET shorter == SeqsUpTo(S, n - 1)
         IN  shorter \cup {Append(q, c) : q \in shorter, c \in S}

Paths == SeqsUpTo(Chars, MaxPathLen)

SeqToSet(s) == {s[i] : i \in 1..Len(s)}

-----------------------------------------------------------------------------
\* Records.

\* A domain record as getDomainJson returns it.  root = NoRootKey: the record
\* has no "root" key (a folder domain).  present = FALSE only for the empty
\* cache slot.
DomainRec(root, bobAcl, defAcl) ==
    [present |-> TRUE, root |-> root, owner |-> "alice",
     acls |-> [u \in AclUsers |-> IF u = "bob" THEN bobAcl ELSE defAcl]]

NotCached ==
    [present |-> FALSE, root |-> NoRootKey, owner |-> NoUser,
     acls |-> [u \in AclUsers |-> NoEntry]]

NoCall == [op |-> "none", a |-> NoId, b |-> "", c |-> NoId]
NoResp == [set |-> FALSE, code |-> 0, dom |-> NotCached, id |-> NoId]

NoH5 == [given |-> FALSE, s |-> <<>>]

\* A domain-rooted path is the sequence of its link names; '/' is <<>>.
\* NoPath: None.
NoPath == <<"none">>
NoLinks == [n \in Names |-> NoId]
NoLink == [id |-> "", name |-> ""]

IdleReq ==
    [kind |-> "idle", pc |-> "idle",
     \* the request
     id |-> MissingId, h5 |-> NoH5, user |-> NoUser, pswd_ok |-> FALSE,
     domain |-> ValidDomain, link |-> NoLink,
     \* the handler's locals
     username |-> NoUser, group_id |-> MissingId, domain_json |-> NotCached,
     root_id |-> NoId, segs |-> <<>>,
     \* validateAction's arguments and locals
     vid |-> NoId, vact |-> "", vret |-> "", vdj |-> NotCached, vroot |-> NoId,
     \* the pending network call and its response
     call |-> NoCall, resp |-> NoResp,
     \* the response sent to the client
     status |-> 0, res_id |-> NoId, res_root |-> NoId,
     \* history: the network calls issued so far, the meta_cache at the start,
     \* the actions the domain's ACL in storage allowed the actor at some
     \* moment of the request
     calls |-> <<>>, mc0 |-> [i \in ObjIds |-> NoId], held |-> {},
     \* http_post: the attempts made beyond the first; history: the identities
     \* its create calls carried, and createObjId's count at the start
     tries |-> 0, sent |-> {}, mint0 |-> 0,
     \* history: the number of calls issued when validateAction last passed
     vok |-> 0,
     \* history: the domain record that passed POST_Group's checks of lines
     \* 153-158
     checked |-> NotCached,
     \* the getalias parameter; the alias list of the response; the locals of
     \* getPathForObjectId: idpath_map, its call stack, its result, the link
     \* collection last fetched; history: the groups whose links it fetched
     getalias |-> FALSE, alias |-> <<>>,
     amap |-> [i \in ObjIds |-> NoPath], astack |-> <<>>, apath |-> NoPath,
     lresp |-> NoLinks, fetched |-> <<>>]

\* Python truthiness of h5path (None and '' are falsy).
Truthy(h5) == h5.given /\ h5.s # <<>>

\* The link name a path segment spells; a segment of several characters
\* spells a name no group of the model holds.
SegName(seg) == IF Len(seg) = 1 THEN seg[1] ELSE "*"

-----------------------------------------------------------------------------
\* The coroutine engine.  st = [q: the request record, dc: domain cache,
\* mc: meta_cache, mint: identities handed out, noauth: allow_noauth].

Goto(st, label) == [st EXCEPT !.q.pc = label]

\* raise HTTP<code>
Fail(st, code) == [st EXCEPT !.q.pc = "done", !.q.status = code]

\* await <network call>; the coroutine resumes at `resume`.
Issue(st, op, a, b, c, resume) ==
    [st EXCEPT !.q.pc = resume,
               !.q.call = [op |-> op, a |-> a, b |-> b, c |-> c],
               !.q.resp = NoResp,
               !.q.calls = Append(@, op)]

\* await validateAction(app, domain, obj_id, username, action)
Validate(st, obj_id, action, ret) ==
    [st EXCEPT !.q.pc = "V_start", !.q.vid = obj_id, !.q.vact = action,
               !.q.vret = ret]

Blocked(st) == st.q.pc = "done" \/ st.q.call.op # "none"

-----------------------------------------------------------------------------
\* servicenode_lib.validateAction: the object exists, lies in the domain, and
\* the domain's ACL allows the action.  The domain record and the object are
\* read through the caches; a root that does not match forces a reload of the
\* domain record.

validateAction(st) ==
    LET q == st.q IN
    CASE q.pc = "V_start" ->
            IF st.dc.present
            THEN [Goto(st, "V_obj") EXCEPT !.q.vdj = st.dc]
            ELSE Issue(st, "get_domain", NoId, "", NoId, "V_dom")
      [] q.pc = "V_dom" ->
            IF q.resp.code # 200 THEN Fail(st, q.resp.code)
            ELSE [Goto(st, "V_obj") EXCEPT !.dc = q.resp.dom, !.q.vdj = q.resp.dom]
      [] q.pc = "V_obj" ->
            IF st.mc[q.vid] # NoId
            THEN [Goto(st, "V_indomain") EXCEPT !.q.vroot = st.mc[q.vid]]
            ELSE Issue(st, "get_obj", q.vid, "", NoId, "V_objfetched")
      [] q.pc = "V_objfetched" ->
            IF q.resp.code # 200 THEN Fail(st, q.resp.code)
            ELSE [Goto(st, "V_indomain") EXCEPT !.mc[q.vid] = q.resp.id,
                                                 !.q.vroot = q.resp.id]
      [] q.pc = "V_indomain" ->
            IF q.vroot # q.vdj.root
            THEN Issue(st, "get_domain", NoId, "", NoId, "V_reloaded")
            ELSE Goto(st, "V_acl")
      [] q.pc = "V_reloaded" ->
            IF q.resp.code # 200 THEN Fail(st, q.resp.code)
            ELSE IF q.vroot # q.resp.dom.root
                 THEN [Fail(st, 403) EXCEPT !.dc = q.resp.dom, !.q.vdj = q.resp.dom]
                 ELSE [Goto(st, "V_acl") EXCEPT !.dc = q.resp.dom,
                                                 !.q.vdj = q.resp.dom]
      [] q.pc = "V_acl" ->
            IF aclCheck(q.vdj, q.vact, q.username)
            THEN [Goto(st, q.vret) EXCEPT !.q.vok = Len(q.calls)]
            ELSE Fail(st, 403)

-----------------------------------------------------------------------------
\* servicenode_lib.getPathForObjectId(app, parent_id, idpath_map, tgt_id): a
\* depth-first walk over the hard links from parent_id; an identity that is
\* in idpath_map has been discovered and is not entered again; the result is
\* the first path found to tgt_id, else None.  One fetch of the link
\* collection per group entered.  A stack frame holds the group, its links
\* and the link names still to look at.

Frame(id) == [id |-> id, links |-> NoLinks, todo |-> <<>>]

\* (a walk that forgets what it has discovered)
NeverDiscovered(amap, id) == FALSE

\* link_id in idpath_map
Discovered(amap, id) == amap[id] # NoPath

\* The link names of a collection, in the order the data node lists them.
LinkNames(links) ==
    (IF links["a"] # NoId THEN <<"a">> ELSE <<>>)
        \o (IF links["b"] # NoId THEN <<"b">> ELSE <<>>)

\* return h5path: the frame is left, the caller goes on at "S_ret".
Return(st, h5path) ==
    [st EXCEPT !.q.pc = "S_ret", !.q.apath = h5path,
               !.q.astack = SubSeq(@, 1, Len(@) - 1)]

getPathForObjectId(st) ==
    LET q == st.q
        n == Len(q.astack)
        top == q.astack[n]
    IN
    CASE q.pc = "S_call" ->
            IF top.id = q.group_id THEN Return(st, q.amap[top.id])
            ELSE Issue([st EXCEPT !.q.fetched = Append(@, top.id)],
                       "get_links", top.id, "", NoId, "S_links")
      [] q.pc = "S_links" ->
            IF q.resp.code # 200 THEN Fail(st, q.resp.code)
            ELSE [Goto(st, "S_loop") EXCEPT !.q.astack[n].links = q.lresp,
                                             !.q.astack[n].todo = LinkNames(q.lresp)]
      [] q.pc = "S_loop" ->
            IF top.todo = <<>> THEN Return(st, NoPath)
            ELSE LET title == Head(top.todo)
                     link_id == top.links[title]
                     rest == [st EXCEPT !.q.astack[n].todo = Tail(@)]
                 IN  IF Discovered(q.amap, link_id) THEN rest
                     ELSE IF link_id = q.group_id
                     THEN Return(st, Append(q.amap[top.id], title))
                     ELSE IF link_id \notin GroupIds
                     THEN [rest EXCEPT !.q.amap[link_id] =
                                            Append(q.amap[top.id], title)]
                     ELSE [rest EXCEPT !.q.amap[link_id] =
                                            Append(q.amap[top.id], title),
                                       !.q.astack = Append(@, Frame(link_id)),
                                       !.q.pc = "S_call"]
      [] q.pc = "S_ret" ->
            IF q.astack = <<>> THEN Goto(st, "A_found")
            ELSE IF q.apath # NoPath THEN Return(st, q.apath)
            ELSE Goto(st, "S_loop")

-----------------------------------------------------------------------------
\* GET_Group

\* lines 39-59: the structural checks; 0 when the request passes them.
GET_Validate(q) ==
    IF q.id = MissingId /\ ~q.h5.given THEN 400
    ELSE IF q.id # MissingId /\ ~isValidUuid(q.id, "Group") THEN 400
    ELSE IF q.h5.given /\ q.id = MissingId /\ q.h5.s = <<>> THEN 500  \* h5path[0]: IndexError
    ELSE IF q.h5.given /\ q.id = MissingId /\ q.h5.s[1] # "/" THEN 400
    ELSE 0

\* (a handler that never lets a request go on without credentials)
GET_NeverAnonymous(q, noauth) == FALSE

\* line 68: the request goes on as the anonymous actor
GET_Anonymous(q, noauth) == q.user = NoUser /\ noauth

\* (a handler that walks the path from the id in the URL when there is one)
GET_AbsoluteWithoutId(q) == Truthy(q.h5) /\ q.h5.s[1] = "/" /\ q.id = MissingId

\* line 80: an absolute path
GET_Absolute(q) == Truthy(q.h5) /\ q.h5.s[1] = "/"

\* lines 44-53: getAlias is read only when the URL carries a group id
GET_GetAlias(q) == q.id # MissingId /\ q.getalias

\* lines 117-119: alias = [h5path] when the search found a path, else []
GET_AliasList(h5path) == IF h5path # NoPath THEN <<h5path>> ELSE <<>>

\* (a handler that takes whatever the path leads to)
GET_AnyKind(id) == FALSE

\* line 93: the path led to something that is no group
GET_NotGroup(id) == ~isValidUuid(id, "Group")

\* (a handler that serves the group from meta_cache when it is there)
GET_NoRefresh == FALSE

\* line 103: getObjectJson(..., refresh=True)
GET_Refresh == TRUE

GET_Group(st) ==
    LET q == st.q IN
    CASE q.pc = "G_start" ->
            IF GET_Validate(q) # 0 THEN Fail(st, GET_Validate(q))
            ELSE IF GET_Anonymous(q, st.noauth)
                 THEN [Goto(st, "G_domain") EXCEPT !.q.group_id = q.id,
                                                    !.q.username = "default"]
                 ELSE Issue([st EXCEPT !.q.group_id = q.id],
                            "auth", NoId, "", NoId, "G_auth")
      [] q.pc = "G_auth" ->
            IF q.resp.code # 200 THEN Fail(st, q.resp.code)
            ELSE [Goto(st, "G_domain") EXCEPT !.q.username = q.user]
      [] q.pc = "G_domain" ->
            IF ~isValidDomain(q.domain) THEN Fail(st, 400)
            ELSE IF GET_Absolute(q)
                 THEN IF st.dc.present
                      THEN [Goto(st, "G_root") EXCEPT !.q.domain_json = st.dc]
                      ELSE Issue(st, "get_domain", NoId, "", NoId, "G_domfetched")
                 ELSE Goto(st, "G_path")
      [] q.pc = "G_domfetched" ->
            IF q.resp.code # 200 THEN Fail(st, q.resp.code)
            ELSE [Goto(st, "G_root") EXCEPT !.dc = q.resp.dom,
                                             !.q.domain_json = q.resp.dom]
      [] q.pc = "G_root" ->
            IF q.domain_json.root = NoRootKey THEN Fail(st, 400)
            ELSE [Goto(st, "G_path") EXCEPT !.q.group_id = q.domain_json.root]
      [] q.pc = "G_path" ->
            IF Truthy(q.h5)
            THEN [Goto(st, "G_walk") EXCEPT !.q.segs = SplitPath(q.h5.s)]
            ELSE Validate(st, q.group_id, "read", "G_fetch")
      \* getObjectIdByPath: one link lookup per segment
      [] q.pc = "G_walk" ->
            IF q.segs = <<>>
            THEN IF GET_NotGroup(q.group_id) THEN Fail(st, 404)
                 ELSE Validate(st, q.group_id, "read", "G_fetch")
            ELSE IF q.group_id \notin GroupIds THEN Fail(st, 404)
            ELSE Issue(st, "get_link", q.group_id, SegName(Head(q.segs)), NoId,
                       "G_link")
      [] q.pc = "G_link" ->
            IF q.resp.code # 200 THEN Fail(st, q.resp.code)
            ELSE [Goto(st, "G_walk") EXCEPT !.q.group_id = q.resp.id,
                                             !.q.segs = Tail(q.segs)]
      \* getObjectJson(refresh=True): always a fetch, stored in meta_cache
      [] q.pc = "G_fetch" ->
            IF GET_Refresh \/ st.mc[q.group_id] = NoId
            THEN Issue(st, "get_obj", q.group_id, "", NoId, "G_fetched")
            ELSE [st EXCEPT !.q.pc = "done", !.q.status = 200,
                            !.q.res_id = q.group_id,
                            !.q.res_root = st.mc[q.group_id]]
      [] q.pc = "G_fetched" ->
            IF q.resp.code # 200 THEN Fail(st, q.resp.code)
            ELSE IF GET_GetAlias(q)
            THEN [st EXCEPT !.mc[q.group_id] = q.resp.id, !.q.pc = "A_start",
                            !.q.res_id = q.group_id, !.q.res_root = q.resp.id]
            ELSE [st EXCEPT !.mc[q.group_id] = q.resp.id,
                            !.q.pc = "done", !.q.status = 200,
                            !.q.res_id = q.group_id, !.q.res_root = q.resp.id]
      \* lines 109-119: root_id = group_json["root"]
      [] q.pc = "A_start" ->
            IF q.group_id = q.res_root
            THEN [st EXCEPT !.q.pc = "done", !.q.status = 200,
                            !.q.alias = << <<>> >>]
            ELSE [st EXCEPT !.q.pc = "S_call",
                            !.q.amap = [i \in ObjIds |->
                                            IF i = q.res_root THEN <<>> ELSE NoPath],
                            !.q.astack = <<Frame(q.res_root)>>]
      [] q.pc = "A_found" ->
            [st EXCEPT !.q.pc = "done", !.q.status = 200,
                       !.q.alias = GET_AliasList(q.apath)]

-----------------------------------------------------------------------------
\* POST_Group

\* (a handler that admits the anonymous actor as GET_Group does)
POST_AnonymousAsGET(q, noauth) == q.user = NoUser /\ noauth

\* lines 140-142: write actions need auth, allow_noauth is not consulted
POST_Anonymous(q, noauth) == FALSE

\* (a handler that takes the domain record from the cache when it is there)
POST_NoReload == FALSE

\* line 151: the domain record is reloaded from storage
POST_Reload == TRUE

\* (a handler that links whenever the body names a parent group)
POST_WantLinkById(q) == q.link.id # ""

\* lines 173, 196: a link was requested
POST_WantLink(q) == q.link.id # "" /\ q.link.name # ""

\* (a handler that links the root instead of the new group)
POST_LinkTargetRoot(q) == q.root_id

\* line 198: link_json["id"]
POST_LinkTarget(q) == q.group_id

\* (a handler that swallows the link PUT's failure)
POST_AfterPutSwallowed(st) ==
    [st EXCEPT !.q.pc = "done", !.q.status = 201,
               !.q.res_id = st.q.group_id, !.q.res_root = st.q.root_id]

\* lines 203-207: the outcome once the link PUT has returned
POST_AfterPut(st) ==
    IF st.q.resp.code \notin {200, 201} THEN Fail(st, st.q.resp.code)
    ELSE [st EXCEPT !.q.pc = "done", !.q.status = 201,
                    !.q.res_id = st.q.group_id, !.q.res_root = st.q.root_id]

\* (a handler that leaves the identity to each attempt of the create call)
POST_CreateIdPerAttempt(q, attempt) ==
    IF attempt = 0 THEN q.group_id
    ELSE IF q.group_id = NewIds[1] THEN NewIds[Len(NewIds)] ELSE NewIds[1]

\* lines 184-186, 193: the identity in the body of the create call, the same
\* body for every attempt http_post makes
POST_CreateId(q, attempt) == q.group_id

POST_Group(st) ==
    LET q == st.q IN
    CASE q.pc = "P_start" ->
            IF POST_Anonymous(q, st.noauth)
            THEN [Goto(st, "P_domain") EXCEPT !.q.username = "default"]
            ELSE Issue(st, "auth", NoId, "", NoId, "P_auth")
      [] q.pc = "P_auth" ->
            IF q.resp.code # 200 THEN Fail(st, q.resp.code)
            ELSE [Goto(st, "P_domain") EXCEPT !.q.username = q.user]
      [] q.pc = "P_domain" ->
            IF ~isValidDomain(q.domain) THEN Fail(st, 400)
            ELSE IF POST_Reload \/ ~st.dc.present
                 THEN Issue(st, "get_domain", NoId, "", NoId, "P_dom")
                 ELSE [Goto(st, "P_acl") EXCEPT !.q.domain_json = st.dc]
      [] q.pc = "P_dom" ->
            IF q.resp.code # 200 THEN Fail(st, q.resp.code)
            ELSE [Goto(st, "P_acl") EXCEPT !.dc = q.resp.dom,
                                            !.q.domain_json = q.resp.dom]
      [] q.pc = "P_acl" ->
            IF ~aclCheck(q.domain_json, "create", q.username) THEN Fail(st, 403)
            ELSE IF q.domain_json.root = NoRootKey THEN Fail(st, 400)
            ELSE IF POST_WantLink(q)
                 THEN Validate([st EXCEPT !.q.checked = q.domain_json],
                               q.link.id, "create", "P_again")
                 ELSE Goto([st EXCEPT !.q.checked = q.domain_json], "P_again")
      \* line 181: the domain record is read again, the cache allowed
      [] q.pc = "P_again" ->
            IF st.dc.present
            THEN [Goto(st, "P_create") EXCEPT !.q.domain_json = st.dc]
            ELSE Issue(st, "get_domain", NoId, "", NoId, "P_dom2")
      [] q.pc = "P_dom2" ->
            IF q.resp.code # 200 THEN Fail(st, q.resp.code)
            ELSE [Goto(st, "P_create") EXCEPT !.dc = q.resp.dom,
                                               !.q.domain_json = q.resp.dom]
      [] q.pc = "P_create" ->
            IF q.domain_json.root = NoRootKey THEN Fail(st, 500)  \* KeyError
            ELSE Goto([st EXCEPT !.q.root_id = q.domain_json.root,
                                 !.q.group_id = NewIds[st.mint + 1],
                                 !.mint = st.mint + 1], "P_post")
      [] q.pc = "P_post" ->
            Issue([st EXCEPT !.q.sent = {POST_CreateId(q, 0)}],
                  "post_group", POST_CreateId(q, 0), "", q.root_id, "P_created")
      [] q.pc = "P_created" ->
            IF q.resp.code \notin {200, 201} THEN Fail(st, q.resp.code)
            ELSE IF POST_WantLink(q)
                 THEN Issue(st, "put_link", q.link.id, q.link.name,
                            POST_LinkTarget(q), "P_linked")
                 ELSE [st EXCEPT !.q.pc = "done", !.q.status = 201,
                                 !.q.res_id = q.group_id, !.q.res_root = q.root_id]
      [] q.pc = "P_linked" -> POST_AfterPut(st)

-----------------------------------------------------------------------------
\* DELETE_Group

\* lines 217-225: the group id is missing or is no group id
DELETE_BadId(q) == q.id = MissingId \/ ~isValidUuid(q.id, "Group")

\* (a handler without the root check)
DELETE_NeverRoot(q) == FALSE

\* line 247: the group is the root of the domain record read at line 238
DELETE_IsRoot(q) == q.group_id = q.domain_json.root

\* (a handler that leaves the entry in meta_cache)
DELETE_KeepEntry(mc, id) == mc

\* lines 261-262: the entry is removed from meta_cache
DELETE_Invalidate(mc, id) == [mc EXCEPT ![id] = NoId]

DELETE_Group(st) ==
    LET q == st.q IN
    CASE q.pc = "D_start" ->
            IF DELETE_BadId(q) THEN Fail(st, 400)
            ELSE Issue([st EXCEPT !.q.group_id = q.id],
                       "auth", NoId, "", NoId, "D_auth")
      [] q.pc = "D_auth" ->
            IF q.resp.code # 200 THEN Fail(st, q.resp.code)
            ELSE IF ~isValidDomain(q.domain) THEN Fail(st, 400)
            ELSE IF st.dc.present
                 THEN Validate([st EXCEPT !.q.username = q.user,
                                          !.q.domain_json = st.dc],
                               q.group_id, "delete", "D_check")
                 ELSE Issue([st EXCEPT !.q.username = q.user],
                            "get_domain", NoId, "", NoId, "D_dom")
      [] q.pc = "D_dom" ->
            IF q.resp.code # 200 THEN Fail(st, q.resp.code)
            ELSE Validate([st EXCEPT !.dc = q.resp.dom,
                                     !.q.domain_json = q.resp.dom],
                          q.group_id, "delete", "D_check")
      [] q.pc = "D_check" ->
            IF q.domain_json.root = NoRootKey THEN Fail(st, 400)
            ELSE IF DELETE_IsRoot(q) THEN Fail(st, 403)
            ELSE Issue(st, "delete_group", q.group_id, "", NoId, "D_deleted")
      [] q.pc = "D_deleted" ->
            IF q.resp.code # 200 THEN Fail(st, q.resp.code)
            ELSE [st EXCEPT !.mc = DELETE_Invalidate(st.mc, q.group_id),
                            !.q.pc = "done", !.q.status = 200]

-----------------------------------------------------------------------------
\* A coroutine runs from where it stands to its next network call or its end.

Step(st) ==
    IF st.q.pc \in {"V_start", "V_dom", "V_obj", "V_objfetched", "V_indomain",
                    "V_reloaded", "V_acl"}
    THEN validateAction(st)
    ELSE IF st.q.pc \in {"S_call", "S_links", "S_loop", "S_ret"}
    THEN getPathForObjectId(st)
    ELSE CASE st.q.kind = "GET" -> GET_Group(st)
           [] st.q.kind = "POST" -> POST_Group(st)
           [] st.q.kind = "DELETE" -> DELETE_Group(st)

\* (the state is bound to a value before it is used, so that each step is
\* evaluated once)
RECURSIVE Run(_)
Run(st) ==
    CHOOSE t \in {IF Blocked(s) THEN s ELSE Run(Step(s)) : s \in {st}} : TRUE

-----------------------------------------------------------------------------
\* The state after construction.

AllActions == {"read", "create", "update", "delete"}

InitDomains ==
    {DomainRec(RootA, AllActions, {"read"}),
     DomainRec(RootA, {"read"}, NoEntry),
     DomainRec(NoRootKey, AllActions, {"read"})}

\* "/a" is the group g-a, "/b" the dataset d-x, and "/a/a" leads back to the
\* root: the link graph has a cycle.
InitLinks ==
    [g \in GroupIds |-> [n \in Names |->
        IF g = RootA /\ n = "a" THEN GrpA
        ELSE IF g = RootA /\ n = "b" THEN DsetX
        ELSE IF g = GrpA /\ n = "a" THEN RootA
        ELSE NoId]]

Init ==
    /\ allow_noauth \in BOOLEAN
    /\ dn_domain \in InitDomains
    /\ dn_root = [i \in ObjIds |-> IF i \in {RootA, GrpA, DsetX} THEN RootA ELSE NoId]
    /\ dn_links = InitLinks
    /\ domain_cache = NotCached
    /\ meta_cache = [i \in ObjIds |-> NoId]
    /\ req = [r \in Slots |-> IdleReq]
    /\ minted = 0
    /\ nreq = 0
    /\ nchg = 0

-----------------------------------------------------------------------------
\* Requests arriving.

Active == {r \in Slots : req[r].kind # "idle"}

\* Identities a client can name: the ones that exist or existed, one that
\* never existed (g-z), a dataset, and a malformed one.
KnownGroups ==
    {RootA, GrpA, GrpZ} \cup {NewIds[i] : i \in 1..minted}
        \cup {g \in {RootB} : dn_root[g] # NoId}

AnyIds == KnownGroups \cup {DsetX, BadId, MissingId}

AnyH5 == {NoH5} \cup {[given |-> TRUE, s |-> p] : p \in Paths}

AnyCreds ==
    {[user |-> NoUser, ok |-> FALSE], [user |-> "alice", ok |-> TRUE],
     [user |-> "bob", ok |-> TRUE], [user |-> "bob", ok |-> FALSE]}

AnyLinks ==
    {[id |-> i, name |-> n] : i \in KnownGroups \cup {""}, n \in Names \cup {""}}

GoodCreds == {c \in AnyCreds : c.ok}

SetState(r, st) ==
    /\ req' = [req EXCEPT ![r] = st.q]
    /\ domain_cache' = st.dc
    /\ meta_cache' = st.mc
    /\ minted' = st.mint

StateOf(q) ==
    [q |-> q, dc |-> domain_cache, mc |-> meta_cache, mint |-> minted,
     noauth |-> allow_noauth]

\* The actor a request runs as: "default" for a GET without credentials in
\* no-auth mode, else the user of the credentials.
Actor(kind, user) ==
    IF kind = "GET" /\ user = NoUser /\ allow_noauth THEN "default" ELSE user

Held(d, actor) == {a \in Actions : aclCheck(d, a, actor)}

CanStart(r, maxActive) ==
    /\ req[r].kind = "idle"
    /\ \A o \in Slots : o < r => req[o].kind # "idle"
    /\ Cardinality(Active) < maxActive
    /\ nreq < MaxRequests

Start(r, kind, label, id, h5, cred, domain, link) ==
    /\ nreq' = nreq + 1
    /\ SetState(r, Run(StateOf(
            [IdleReq EXCEPT !.kind = kind, !.pc = label, !.id = id, !.h5 = h5,
                            !.user = cred.user, !.pswd_ok = cred.ok,
                            !.domain = domain, !.link = link,
                            !.mc0 = meta_cache, !.mint0 = minted,
                            !.held = Held(dn_domain, Actor(kind, cred.user))])))
    /\ UNCHANGED <<allow_noauth, dn_domain, dn_root, dn_links, nchg>>

StartGET(r, ids, h5s, creds, domains, maxActive) ==
    /\ CanStart(r, maxActive)
    /\ \E id \in ids, h5 \in h5s, cred \in creds, domain \in domains :
        Start(r, "GET", "G_start", id, h5, cred, domain, NoLink)

\* createObjId never runs dry: a POST is admitted while an identity is left.
Unminted ==
    Cardinality({r \in Slots : req[r].kind = "POST" /\ req[r].pc # "done"
                                /\ req[r].group_id = MissingId})

StartPOST(r, links, creds, domains, maxActive) ==
    /\ CanStart(r, maxActive)
    /\ minted + Unminted < Len(NewIds)
    /\ \E link \in links, cred \in creds, domain \in domains :
        Start(r, "POST", "P_start", MissingId, NoH5, cred, domain, link)

StartDELETE(r, ids, creds, domains, maxActive) ==
    /\ CanStart(r, maxActive)
    /\ \E id \in ids, cred \in creds, domain \in domains :
        Start(r, "DELETE", "D_start", id, NoH5, cred, domain, NoLink)

-----------------------------------------------------------------------------
\* The callees executing a pending call.

Pending(r, op) == req[r].call.op = op /\ ~req[r].resp.set

Respond(r, code, dom, id) ==
    req' = [req EXCEPT ![r].resp = [set |-> TRUE, code |-> code, dom |-> dom,
                                    id |-> id]]

\* validateUserPassword: 401 without credentials or with a wrong password
Auth(r) ==
    /\ Pending(r, "auth")
    /\ Respond(r, IF req[r].user # NoUser /\ req[r].pswd_ok THEN 200 ELSE 401,
               NotCached, NoId)
    /\ UNCHANGED <<allow_noauth, dn_domain, dn_root, dn_links, domain_cache,
                   meta_cache, minted, nreq, nchg>>

DN_GetDomain(r) ==
    /\ Pending(r, "get_domain")
    /\ Respond(r, 200, dn_domain, NoId)
    /\ UNCHANGED <<allow_noauth, dn_domain, dn_root, dn_links, domain_cache,
                   meta_cache, minted, nreq, nchg>>

DN_GetObject(r) ==
    /\ Pending(r, "get_obj")
    /\ LET id == req[r].call.a IN
       IF dn_root[id] # NoId THEN Respond(r, 200, NotCached, dn_root[id])
       ELSE Respond(r, 404, NotCached, NoId)
    /\ UNCHANGED <<allow_noauth, dn_domain, dn_root, dn_links, domain_cache,
                   meta_cache, minted, nreq, nchg>>

DN_GetLink(r) ==
    /\ Pending(r, "get_link")
    /\ LET g == req[r].call.a
           n == req[r].call.b
       IN  IF dn_root[g] # NoId /\ n \in Names /\ dn_links[g][n] # NoId
           THEN Respond(r, 200, NotCached, dn_links[g][n])
           ELSE Respond(r, 404, NotCached, NoId)
    /\ UNCHANGED <<allow_noauth, dn_domain, dn_root, dn_links, domain_cache,
                   meta_cache, minted, nreq, nchg>>

\* GET /groups/{id}/links: the link collection of a group
DN_GetLinks(r) ==
    /\ Pending(r, "get_links")
    /\ LET g == req[r].call.a IN
       IF dn_root[g] # NoId
       THEN req' = [req EXCEPT ![r].resp = [set |-> TRUE, code |-> 200,
                                            dom |-> NotCached, id |-> NoId],
                               ![r].lresp = dn_links[g]]
       ELSE Respond(r, 404, NotCached, NoId)
    /\ UNCHANGED <<allow_noauth, dn_domain, dn_root, dn_links, domain_cache,
                   meta_cache, minted, nreq, nchg>>

\* The call may fail in transport (503), before it reached the data node or
\* after the data node created the group (the response is lost).  A create
\* for an identity that exists is a Conflict.
DN_PostGroup(r) ==
    /\ Pending(r, "post_group")
    /\ \E outcome \in {"done", "lost", "unsent"} :
        IF outcome = "unsent"
        THEN /\ dn_root' = dn_root
             /\ Respond(r, 503, NotCached, NoId)
        ELSE IF dn_root[req[r].call.a] # NoId
        THEN /\ dn_root' = dn_root
             /\ Respond(r, IF outcome = "done" THEN 409 ELSE 503, NotCached, NoId)
        ELSE /\ dn_root' = [dn_root EXCEPT ![req[r].call.a] = req[r].call.c]
             /\ IF outcome = "done"
                THEN Respond(r, 201, NotCached, req[r].call.a)
                ELSE Respond(r, 503, NotCached, NoId)
    /\ UNCHANGED <<allow_noauth, dn_domain, dn_links, domain_cache,
                   meta_cache, minted, nreq, nchg>>

DN_PutLink(r) ==
    /\ Pending(r, "put_link")
    /\ LET g == req[r].call.a
           n == req[r].call.b
       IN  \E ok \in BOOLEAN :
            IF dn_root[g] = NoId
            THEN dn_links' = dn_links /\ Respond(r, 404, NotCached, NoId)
            ELSE IF dn_links[g][n] # NoId
            THEN dn_links' = dn_links /\ Respond(r, 409, NotCached, NoId)
            ELSE IF ~ok
            THEN dn_links' = dn_links /\ Respond(r, 503, NotCached, NoId)
            ELSE /\ dn_links' = [dn_links EXCEPT ![g][n] = req[r].call.c]
                 /\ Respond(r, 201, NotCached, NoId)
    /\ UNCHANGED <<allow_noauth, dn_domain, dn_root, domain_cache,
                   meta_cache, minted, nreq, nchg>>

\* The group goes with the links it holds.
DN_DeleteGroup(r) ==
    /\ Pending(r, "delete_group")
    /\ LET g == req[r].call.a IN
       \E ok \in BOOLEAN :
            IF dn_root[g] = NoId
            THEN /\ UNCHANGED <<dn_root, dn_links>>
                 /\ Respond(r, 404, NotCached, NoId)
            ELSE IF ~ok
            THEN /\ UNCHANGED <<dn_root, dn_links>>
                 /\ Respond(r, 503, NotCached, NoId)
            ELSE /\ dn_root' = [dn_root EXCEPT ![g] = NoId]
                 /\ dn_links' = [dn_links EXCEPT ![g] = [n \in Names |-> NoId]]
                 /\ Respond(r, 200, NotCached, NoId)
    /\ UNCHANGED <<allow_noauth, dn_domain, domain_cache,
                   meta_cache, minted, nreq, nchg>>

\* http_post: after Unavailable the Storage RPC Client may send the request
\* again, with the body it was given, a bounded number of times.
HTTP_RetryPost(r) ==
    /\ req[r].call.op = "post_group"
    /\ req[r].resp.set /\ req[r].resp.code = 503
    /\ req[r].tries < MaxRetries
    /\ LET id == POST_CreateId(req[r], req[r].tries + 1) IN
       req' = [req EXCEPT ![r].resp = NoResp,
                          ![r].call.a = id,
                          ![r].tries = @ + 1,
                          ![r].sent = @ \cup {id},
                          ![r].calls = Append(@, "post_group")]
    /\ UNCHANGED <<allow_noauth, dn_domain, dn_root, dn_links, domain_cache,
                   meta_cache, minted, nreq, nchg>>

\* The response arrives and the coroutine runs on.
Resume(r) ==
    /\ req[r].call.op # "none"
    /\ req[r].resp.set
    /\ SetState(r, Run(StateOf([req[r] EXCEPT !.call = NoCall])))
    /\ UNCHANGED <<allow_noauth, dn_domain, dn_root, dn_links, nreq, nchg>>

\* The response has been sent; the coroutine is gone.
Retire(r) ==
    /\ req[r].pc = "done"
    /\ req' = [req EXCEPT ![r] = IdleReq]
    /\ UNCHANGED <<allow_noauth, dn_domain, dn_root, dn_links, domain_cache,
                   meta_cache, minted, nreq, nchg>>

-----------------------------------------------------------------------------
\* The domain changes in storage through another service node: bob's ACL
\* entry is withdrawn, or the domain is deleted and created again with a new
\* root group.  This process's caches are not told.

DomainChanges(d) ==
    {DomainRec(d.root, NoEntry, d.acls["default"]),
     DomainRec(RootB, d.acls["bob"], d.acls["default"])} \ {d}

DomainChange ==
    /\ nchg < MaxDomainChanges
    /\ nchg' = nchg + 1
    /\ \E d \in DomainChanges(dn_domain) :
        /\ dn_domain' = d
        /\ dn_root' = IF d.root = RootB THEN [dn_root EXCEPT ![RootB] = RootB]
                      ELSE dn_root
        /\ req' = [r \in Slots |->
                    IF req[r].kind = "idle" \/ req[r].pc = "done" THEN req[r]
                    ELSE [req[r] EXCEPT !.held =
                            @ \cup Held(d, Actor(req[r].kind, req[r].user))]]
    /\ UNCHANGED <<allow_noauth, dn_links, domain_cache, meta_cache, minted, nreq>>

-----------------------------------------------------------------------------
\* Spec: one request at a time, any request.

Next ==
    \/ \E r \in Slots : StartGET(r, AnyIds, AnyH5, AnyCreds, Domains, 1)
    \/ \E r \in Slots : StartPOST(r, AnyLinks, AnyCreds, Domains, 1)
    \/ \E r \in Slots : StartDELETE(r, AnyIds, AnyCreds, Domains, 1)
    \/ \E r \in Slots : Auth(r)
    \/ \E r \in Slots : DN_GetDomain(r)
    \/ \E r \in Slots : DN_GetObject(r)
    \/ \E r \in Slots : DN_GetLink(r)
    \/ \E r \in Slots : DN_PostGroup(r)
    \/ \E r \in Slots : HTTP_RetryPost(r)
    \/ \E r \in Slots : DN_PutLink(r)
    \/ \E r \in Slots : DN_DeleteGroup(r)
    \/ \E r \in Slots : Resume(r)
    \/ \E r \in Slots : Retire(r)
    \/ DomainChange

Spec == Init /\ [][Next]_vars

\* SpecConc: the requests of well-formed, authenticated clients, overlapping;
\* http_post makes one attempt.

ConcIds == KnownGroups \ {GrpZ}
ConcH5 == {NoH5, [given |-> TRUE, s |-> <<"/", "a">>]}
ConcLinks == {NoLink, [id |-> GrpA, name |-> "b"]}

NextConc ==
    \/ \E r \in Slots : StartGET(r, ConcIds, ConcH5, GoodCreds, {ValidDomain}, NumSlots)
    \/ \E r \in Slots : StartPOST(r, ConcLinks, GoodCreds, {ValidDomain}, NumSlots)
    \/ \E r \in Slots : StartDELETE(r, ConcIds, GoodCreds, {ValidDomain}, NumSlots)
    \/ \E r \in Slots : Auth(r)
    \/ \E r \in Slots : DN_GetDomain(r)
    \/ \E r \in Slots : DN_GetObject(r)
    \/ \E r \in Slots : DN_GetLink(r)
    \/ \E r \in Slots : DN_PostGroup(r)
    \/ \E r \in Slots : DN_PutLink(r)
    \/ \E r \in Slots : DN_DeleteGroup(r)
    \/ \E r \in Slots : Resume(r)
    \/ \E r \in Slots : Retire(r)
    \/ DomainChange

SpecConc == Init /\ [][NextConc]_vars

\* SpecAlias: GET_Group with getalias over the link graphs of three groups,
\* self-links and cycles included.

AliasGroups == {RootA, GrpA, GrpZ}
AliasTargets == AliasGroups \cup {NoId}

AliasGraphs ==
    {[g \in GroupIds |-> IF g \in AliasGroups THEN f[g] ELSE NoLinks] :
        f \in [AliasGroups -> [Names -> AliasTargets]]}
    \cup
    {[g \in GroupIds |->
        IF g = RootA THEN [n \in Names |-> IF n = "a" THEN DsetX ELSE t]
        ELSE IF g = GrpA THEN [n \in Names |-> IF n = "a" THEN u ELSE NoId]
        ELSE NoLinks] : t \in AliasTargets, u \in AliasTargets}

InitAlias ==
    /\ allow_noauth = FALSE
    /\ dn_domain = DomainRec(RootA, AllActions, {"read"})
    /\ dn_root = [i \in ObjIds |->
                    IF i \in AliasGroups \cup {DsetX} THEN RootA ELSE NoId]
    /\ dn_links \in AliasGraphs
    /\ domain_cache = NotCached
    /\ meta_cache = [i \in ObjIds |-> NoId]
    /\ req = [r \in Slots |-> IdleReq]
    /\ minted = 0
    /\ nreq = 0
    /\ nchg = 0

StartGETAlias(r) ==
    /\ CanStart(r, 1)
    /\ nreq < MaxAliasRequests
    /\ \E id \in AliasGroups :
        /\ nreq' = nreq + 1
        /\ SetState(r, Run(StateOf(
                [IdleReq EXCEPT !.kind = "GET", !.pc = "G_start", !.id = id,
                                !.getalias = TRUE,
                                !.user = "alice", !.pswd_ok = TRUE,
                                !.mc0 = meta_cache, !.mint0 = minted,
                                !.held = Held(dn_domain, "alice")])))
        /\ UNCHANGED <<allow_noauth, dn_domain, dn_root, dn_links, nchg>>

NextAlias ==
    \/ \E r \in Slots : StartGETAlias(r)
    \/ \E r \in Slots : Auth(r)
    \/ \E r \in Slots : DN_GetDomain(r)
    \/ \E r \in Slots : DN_GetObject(r)
    \/ \E r \in Slots : DN_GetLinks(r)
    \/ \E r \in Slots : Resume(r)
    \/ \E r \in Slots : Retire(r)

\* The event loop runs every coroutine that can run, and the callees answer.
SpecAlias == InitAlias /\ [][NextAlias]_vars /\ WF_vars(NextAlias)

-----------------------------------------------------------------------------
\* The Path Resolver's contract on the storage as it stands: the identity a
\* walk over `segs` from `start` ends at, NoId when a segment has no link or
\* its holder is no group in storage.

RECURSIVE Resolve(_, _)
Resolve(start, segs) ==
    IF segs = <<>> THEN start
    ELSE IF start \notin GroupIds THEN NoId
    ELSE IF dn_root[start] = NoId \/ SegName(Head(segs)) \notin Names THEN NoId
    ELSE IF dn_links[start][SegName(Head(segs))] = NoId THEN NoId
    ELSE Resolve(dn_links[start][SegName(Head(segs))], Tail(segs))

Issued(r, op) == op \in SeqToSet(req[r].calls)
Done(r) == req[r].pc = "done"
Authenticated(r) == req[r].user # NoUser /\ req[r].pswd_ok

-----------------------------------------------------------------------------
\* C1: a DELETE of the identity that is the domain's root never issues the
\* storage-node delete call, and an authenticated one on a valid domain ends
\* 403.
C1_RootDeleteForbidden ==
    \A r \in Slots :
        (req[r].kind = "DELETE" /\ dn_domain.root # NoRootKey
            /\ req[r].id = dn_domain.root)
        => /\ ~Issued(r, "delete_group")
           /\ (Done(r) /\ Authenticated(r) /\ isValidDomain(req[r].domain)
                 /\ req[r].domain_json.root # NoRootKey)
                => req[r].status = 403

\* C2: a POST whose actor never held "create" on the domain during the
\* request issues neither the create call nor the link PUT, and, once
\* authenticated on a valid domain, ends 403 after one reload of the domain.
C2_NoCreateWithoutAcl ==
    \A r \in Slots :
        (req[r].kind = "POST" /\ "create" \notin req[r].held)
        => /\ ~Issued(r, "post_group")
           /\ ~Issued(r, "put_link")
           /\ (Done(r) /\ Authenticated(r) /\ isValidDomain(req[r].domain))
                => (req[r].status = 403 /\ req[r].calls = <<"auth", "get_domain">>)

C2_Witness ==
    \E r \in Slots :
        /\ req[r].kind = "POST" /\ Done(r) /\ "create" \notin req[r].held
        /\ req[r].status = 403 /\ domain_cache.present

\* C3: a POST with a link that ends 201 returns a minted identity; the group
\* exists under the domain's root, the link's group holds the hard link to it,
\* and the path made of the link's name resolves from that group to it.
C3_LinkAttached ==
    \A r \in Slots :
        (req[r].kind = "POST" /\ Done(r) /\ req[r].status = 201
            /\ POST_WantLink(req[r]))
        => /\ req[r].res_id \in {NewIds[i] : i \in 1..minted}
           /\ req[r].res_id \notin {i \in ObjIds : req[r].mc0[i] # NoId}
           /\ dn_root[req[r].res_id] = req[r].res_root
           /\ dn_links[req[r].link.id][req[r].link.name] = req[r].res_id
           /\ Resolve(req[r].link.id, <<(<<req[r].link.name>>)>>) = req[r].res_id

C3_Witness ==
    \E r \in Slots :
        /\ req[r].kind = "POST" /\ Done(r) /\ req[r].status = 201
        /\ POST_WantLink(req[r])
        /\ Issued(r, "post_group") /\ Issued(r, "put_link")

\* C4: when the create call succeeded and the link PUT failed, the request
\* ends with the PUT's error, no delete call was issued, and the group is in
\* storage but not linked under the requested name.
C4_PartialFailure ==
    \A r \in Slots :
        (req[r].kind = "POST" /\ Done(r) /\ Issued(r, "put_link")
            /\ req[r].resp.code \notin {200, 201})
        => /\ req[r].status = req[r].resp.code
           /\ req[r].status \in {404, 409, 503}
           /\ ~Issued(r, "delete_group")
           /\ dn_root[req[r].group_id] = req[r].root_id
           /\ dn_links[req[r].link.id][req[r].link.name] # req[r].group_id

C4_Witness ==
    \E r \in Slots :
        /\ req[r].kind = "POST" /\ Done(r) /\ Issued(r, "put_link")
        /\ req[r].resp.code = 503
        /\ dn_root[req[r].group_id] # NoId

-----------------------------------------------------------------------------
\* C5 as stated: after a DELETE whose delete call succeeded the meta_cache
\* holds no entry for the group; a DELETE that failed left the meta_cache as
\* it found it.
C5_CacheFrame ==
    \A r \in Slots :
        (req[r].kind = "DELETE" /\ Done(r))
        => IF req[r].status = 200
           THEN meta_cache[req[r].group_id] = NoId
           ELSE meta_cache = req[r].mc0

\* C5 amended: after a DELETE whose delete call succeeded the meta_cache
\* holds no entry for the group and its other entries are as before; a DELETE
\* that failed before its authorization step (no object fetch) left the
\* meta_cache as it found it; one that failed later removed no entry and
\* added at most the entry of its own group, fetched by validateAction.
C5_CacheFrameAmended ==
    \A r \in Slots :
        (req[r].kind = "DELETE" /\ Done(r))
        => IF req[r].status = 200
           THEN /\ meta_cache[req[r].group_id] = NoId
                /\ \A i \in ObjIds \ {req[r].group_id} : meta_cache[i] = req[r].mc0[i]
           ELSE /\ ~Issued(r, "get_obj") => meta_cache = req[r].mc0
                /\ \A i \in ObjIds :
                     \/ meta_cache[i] = req[r].mc0[i]
                     \/ /\ i = req[r].group_id /\ req[r].mc0[i] = NoId
                        /\ Issued(r, "get_obj") /\ meta_cache[i] = dn_root[i]

C5_Witness ==
    \E r \in Slots :
        /\ req[r].kind = "DELETE" /\ Done(r) /\ req[r].status = 200
        /\ Issued(r, "delete_group")
        /\ dn_root[req[r].group_id] = NoId
        /\ meta_cache[req[r].group_id] = NoId

\* C6: once the requests in flight have completed, the meta_cache holds no
\* entry for a group that is gone from storage.
C6_NoStaleEntryAfterDelete ==
    (\A r \in Slots : req[r].kind = "idle" \/ Done(r))
    => \A g \in GroupIds : dn_root[g] = NoId => meta_cache[g] = NoId

\* C7: a GET_Group by an actor who at no moment of the request held "read"
\* on the domain never ends 404 (nor 200).
C7_ForbiddenNotNotFound ==
    \A r \in Slots :
        (req[r].kind = "GET" /\ Done(r) /\ "read" \notin req[r].held)
        => req[r].status \notin {200, 404}

\* The request fails the handler's structural checks of id and h5path.
BadStructure(q) ==
    \/ q.kind = "GET" /\ GET_Validate(q) # 0
    \/ q.kind = "DELETE" /\ DELETE_BadId(q)

\* C8 as stated: a request with a missing or malformed id, an invalid h5path
\* or an invalid domain name ends 400 and has issued no call at all.
C8_ValidationBeforeIO ==
    \A r \in Slots :
        (req[r].kind # "idle"
            /\ (BadStructure(req[r]) \/ ~isValidDomain(req[r].domain)))
        => /\ req[r].calls = <<>>
           /\ Done(r) => req[r].status = 400

\* C9: in no-auth mode a GET_Group of the domain's root without credentials
\* and without h5path, on a valid domain, runs as "default" with no
\* credential validation, and ends 200 exactly when the domain's ACL allows
\* "default" to read, else 403.
C9_AnonymousRead ==
    \A r \in Slots :
        (req[r].kind = "GET" /\ Done(r) /\ allow_noauth /\ req[r].user = NoUser
            /\ ~req[r].h5.given /\ isValidDomain(req[r].domain)
            /\ dn_domain.root # NoRootKey /\ req[r].id = dn_domain.root)
        => /\ ~Issued(r, "auth")
           /\ req[r].username = "default"
           /\ req[r].status = IF aclCheck(dn_domain, "read", "default") THEN 200 ELSE 403
           /\ req[r].status = 200 => req[r].res_id = dn_domain.root

C9_Witness ==
    \E r \in Slots :
        /\ req[r].kind = "GET" /\ Done(r) /\ allow_noauth /\ req[r].user = NoUser
        /\ req[r].id = dn_domain.root /\ ~req[r].h5.given
        /\ req[r].status = 200

\* The h5path parameter was given and begins with the separator.
LeadingSeparator(h5) == h5.given /\ Len(h5.s) > 0 /\ h5.s[1] = "/"

\* C10: the identity a successful GET_Group returns is the one its validateAction
\* authorized and its fetch read; with an absolute h5path it is what the path
\* resolves to from the root of the domain record the handler read, whatever
\* the id in the URL; with a relative h5path it is what the path resolves to
\* from the id in the URL; with no h5path it is the id in the URL.
C10_ResolutionStart ==
    \A r \in Slots :
        LET q == req[r] IN
        (q.kind = "GET" /\ Done(r) /\ q.status = 200)
        => /\ q.res_id = q.vid
           /\ q.res_id = q.group_id
           /\ q.res_id =
                IF LeadingSeparator(q.h5)
                THEN Resolve(q.domain_json.root, SplitPath(q.h5.s))
                ELSE IF Truthy(q.h5) THEN Resolve(q.id, SplitPath(q.h5.s))
                ELSE q.id

C10_Witness ==
    \E r \in Slots :
        /\ req[r].kind = "GET" /\ Done(r) /\ req[r].status = 200
        /\ LeadingSeparator(req[r].h5) /\ req[r].id \in GroupIds
        /\ req[r].res_id # req[r].id
        /\ req[r].res_id # req[r].domain_json.root

-----------------------------------------------------------------------------
\* The identities createObjId handed out after the first n.
MintedAfter(n) == {NewIds[i] : i \in (n + 1)..Len(NewIds)}

\* C11: a POST_Group mints no identity before it reaches its create call and
\* exactly one when it does; every create call of the request, the retries
\* after Unavailable included, carries that identity, and of the identities
\* not handed out before the request only that one can be in storage.
C11_OneIdentityPerRequest ==
    \A r \in Slots :
        LET q == req[r] IN
        q.kind = "POST" =>
            /\ q.sent \subseteq {q.group_id}
            /\ IF Issued(r, "post_group")
               THEN /\ minted = q.mint0 + 1
                    /\ q.group_id = NewIds[minted]
                    /\ q.sent = {q.group_id}
               ELSE minted = q.mint0 /\ q.sent = {}
            /\ {i \in MintedAfter(q.mint0) : dn_root[i] # NoId} \subseteq {q.group_id}

C11_Witness ==
    \E r \in Slots :
        /\ req[r].kind = "POST" /\ Done(r) /\ req[r].tries > 0
        /\ req[r].status = 409
        /\ dn_root[req[r].group_id] = req[r].root_id

\* C12: a GET_Group that ends 200 issued exactly one call after its
\* validateAction for "read" on the returned identity passed, the fetch of
\* the group, and returns what that fetch read from storage, whether or not
\* the meta_cache held the group before.
C12_ResponseIsRefreshed ==
    \A r \in Slots :
        LET q == req[r] IN
        (q.kind = "GET" /\ Done(r) /\ q.status = 200)
        => /\ q.vact = "read" /\ q.vid = q.res_id
           /\ Len(q.calls) = q.vok + 1
           /\ q.calls[Len(q.calls)] = "get_obj"
           /\ q.resp.set /\ q.resp.code = 200
           /\ q.res_root = q.resp.id
           /\ q.res_root = dn_root[q.res_id]

C12_Witness ==
    \E r \in Slots :
        /\ req[r].kind = "GET" /\ Done(r) /\ req[r].status = 200
        /\ req[r].mc0[req[r].res_id] # NoId
        /\ req[r].calls[Len(req[r].calls)] = "get_obj"

LinkRequested(q) == q.link.id # "" /\ q.link.name # ""

\* No group of the storage holds a link to g.
Unlinked(g) == \A p \in GroupIds, n \in Names : dn_links[p][n] # g

\* C14: a POST_Group issues the link PUT only when the body's link carries
\* both id and name and the create call has succeeded, and then it does issue
\* it.  With both present, the create call comes after validateAction for
\* "create" on the link's group has passed, so a link to a group that is not
\* in storage, or by an actor the ACL denies "create", leads to no create call
\* and no link PUT.  With id or name missing no validateAction runs, and a
\* request whose create call succeeded ends 201 with the group in storage,
\* unlinked.
C14_LinkIffRequested ==
    \A r \in Slots :
        LET q == req[r] IN
        q.kind = "POST" =>
            /\ Issued(r, "put_link")
                => /\ LinkRequested(q)
                   /\ Issued(r, "post_group")
                   /\ dn_root[q.group_id] = q.root_id
                   /\ q.calls[Len(q.calls)] = "put_link"
                   /\ q.call.a = q.link.id \/ q.call.op = "none"
            /\ (LinkRequested(q) /\ Done(r) /\ Issued(r, "post_group")
                    /\ ~Issued(r, "put_link"))
                => (q.status = q.resp.code /\ q.status \in {409, 503})
            /\ (LinkRequested(q) /\ Issued(r, "post_group"))
                => /\ q.vact = "create" /\ q.vid = q.link.id
                   /\ q.vok >= 1
                   /\ \A i \in 1..q.vok : q.calls[i] \notin {"post_group", "put_link"}
                   /\ aclCheck(q.vdj, "create", q.user)
                   /\ dn_root[q.link.id] # NoId
            /\ (LinkRequested(q)
                    /\ (dn_root[q.link.id] = NoId \/ "create" \notin q.held))
                => (~Issued(r, "post_group") /\ ~Issued(r, "put_link"))
            /\ ~LinkRequested(q)
                => /\ q.vok = 0 /\ q.vid = NoId
                   /\ (Done(r) /\ Issued(r, "post_group"))
                        => IF q.resp.code = 201
                           THEN /\ q.status = 201
                                /\ dn_root[q.res_id] = q.res_root
                                /\ Unlinked(q.res_id)
                           ELSE q.status = q.resp.code

C14_Witness ==
    \E r \in Slots :
        /\ req[r].kind = "POST" /\ Done(r) /\ req[r].status = 201
        /\ req[r].link.id # "" /\ req[r].link.name = ""
        /\ dn_root[req[r].res_id] # NoId /\ Unlinked(req[r].res_id)

\* C15: the root a POST_Group mints and creates the new group under is the
\* root of the domain record that passed its "create" ACL check and its root
\* key check.
C15_RootOfCheckedRecord ==
    \A r \in Slots :
        (req[r].kind = "POST" /\ Issued(r, "post_group"))
        => /\ req[r].checked.present
           /\ req[r].root_id = req[r].checked.root
           /\ req[r].call.op = "post_group" => req[r].call.c = req[r].checked.root

\* C16: a DELETE_Group that issues the delete call has fetched the domain
\* record from storage in that request; and when the domain record the
\* handler holds names another root than the domain has in storage, a DELETE
\* of the root in storage issues no delete call and, authenticated on a valid
\* domain, ends 403.
C16_DeleteOnFreshDomain ==
    \A r \in Slots :
        LET q == req[r] IN
        q.kind = "DELETE" =>
            /\ Issued(r, "delete_group") => Issued(r, "get_domain")
            /\ (q.domain_json.present /\ dn_domain.root # NoRootKey
                    /\ q.domain_json.root # dn_domain.root
                    /\ q.id = dn_domain.root)
                => /\ ~Issued(r, "delete_group")
                   /\ (Done(r) /\ Authenticated(r) /\ isValidDomain(q.domain))
                        => q.status = 403

\* C17: a GET_Group without group id whose h5path is missing, empty or
\* does not begin with the separator issues no call and ends 400.
C17_NoIdNeedsAbsolutePath ==
    \A r \in Slots :
        (req[r].kind = "GET" /\ req[r].id = MissingId
            /\ ~LeadingSeparator(req[r].h5))
        => /\ req[r].calls = <<>>
           /\ Done(r)
           /\ req[r].status = 400

\* The request gets as far as the path resolution of line 92: id and h5path
\* pass the structural checks, the actor is admitted, the domain name is
\* valid and, for an absolute path, the domain record has a root.
ReachesResolution(r) ==
    LET q == req[r] IN
    /\ q.kind = "GET" /\ q.h5.given /\ q.h5.s # <<>>
    /\ IF q.id = MissingId THEN q.h5.s[1] = "/" ELSE q.id \in GroupIds
    /\ Authenticated(r) \/ (q.user = NoUser /\ allow_noauth)
    /\ isValidDomain(q.domain)
    /\ LeadingSeparator(q.h5) => (q.domain_json.present /\ q.domain_json.root # NoRootKey)

\* What the h5path of the request leads to in storage.
PathTarget(q) ==
    Resolve(IF LeadingSeparator(q.h5) THEN q.domain_json.root ELSE q.id,
            SplitPath(q.h5.s))

\* C18: a GET_Group whose h5path leads to something that is no group (a
\* dataset), or leads nowhere, ends 404 without having run validateAction and
\* without an object fetch.
C18_NonGroupIsNotFound ==
    \A r \in Slots :
        (Done(r) /\ ReachesResolution(r) /\ PathTarget(req[r]) \notin GroupIds)
        => /\ req[r].status = 404
           /\ req[r].vid = NoId /\ req[r].vok = 0
           /\ ~Issued(r, "get_obj")

C18_Witness ==
    \E r \in Slots :
        /\ Done(r) /\ ReachesResolution(r)
        /\ PathTarget(req[r]) \in DatasetIds
        /\ Issued(r, "get_link") /\ req[r].status = 404

\* The groups and datasets the hard links lead to from the set S.
RECURSIVE ReachableFrom(_)
ReachableFrom(S) ==
    LET more == S \cup ({dn_links[g][n] : g \in S \cap GroupIds, n \in Names} \ {NoId})
    IN  IF more = S THEN S ELSE ReachableFrom(more)

NoRepeats(s) == \A i, j \in 1..Len(s) : s[i] = s[j] => i = j

\* The alias path p leads from the root to the group g over the links.
RECURSIVE Leads(_, _, _)
Leads(from, p, g) ==
    IF p = <<>> THEN from = g
    ELSE /\ from \in GroupIds /\ Head(p) \in Names
         /\ dn_links[from][Head(p)] # NoId
         /\ Leads(dn_links[from][Head(p)], Tail(p), g)

\* While the search runs it fetches the links of no group twice; a GET_Group
\* with getalias that has ended returns 200 with the alias list ['/'] for the
\* root, one path that leads from the root to the group when the group can be
\* reached from the root, and the empty list when it cannot.
AliasSearchSound ==
    \A r \in Slots :
        LET q == req[r] IN
        (q.kind = "GET" /\ q.getalias)
        => /\ NoRepeats(q.fetched)
           /\ SeqToSet(q.fetched) \subseteq ReachableFrom({RootA}) \cap GroupIds
           /\ Done(r) =>
                /\ q.status = 200
                /\ IF q.res_id = q.res_root THEN q.alias = << <<>> >>
                   ELSE IF q.res_id \in ReachableFrom({q.res_root})
                   THEN /\ Len(q.alias) = 1
                        /\ Leads(q.res_root, q.alias[1], q.res_id)
                   ELSE q.alias = <<>>

\* C19: the alias computation of GET_Group ends on every link graph, cycles
\* and self-links included; it fetches the links of a group at most once; the
\* alias list is ['/'] for the root, one path from the root to the group when
\* there is one, else empty.
C19_AliasTerminates ==
    /\ []AliasSearchSound
    /\ \A r \in Slots : (req[r].kind = "GET" /\ req[r].getalias) ~> Done(r)

C19_Witness ==
    \E r \in Slots :
        /\ req[r].kind = "GET" /\ req[r].getalias /\ Done(r)
        /\ req[r].status = 200 /\ Len(req[r].alias) = 1
        /\ Len(req[r].alias[1]) = 2
        /\ dn_links[GrpA]["a"] = GrpA /\ dn_links[RootA]["a"] = GrpA
        /\ Len(req[r].fetched) = 2

\* C20: a request without credentials issues no create call, no link PUT and
\* no delete call.  A POST_Group or DELETE_Group without credentials issues
\* nothing but the credential validation, in no-auth mode or not, and ends
\* 401 when that validation is reached; every POST_Group and DELETE_Group
\* that issues a call begins with the credential validation.  A GET_Group
\* without credentials issues nothing but the credential validation when
\* no-auth mode is off, and ends 401 when it is reached; in no-auth mode it
\* issues no credential validation.
C20_NoCredentialsNoMutation ==
    \A r \in Slots :
        LET q == req[r] IN
        /\ (q.kind \in {"POST", "DELETE"} /\ q.calls # <<>>) => q.calls[1] = "auth"
        /\ (q.kind # "idle" /\ q.user = NoUser)
            => /\ ~Issued(r, "post_group") /\ ~Issued(r, "put_link")
               /\ ~Issued(r, "delete_group")
               /\ (q.kind \in {"POST", "DELETE"} \/ ~allow_noauth)
                    => /\ SeqToSet(q.calls) \subseteq {"auth"}
                       /\ (Done(r) /\ Issued(r, "auth")) => q.status = 401
                       /\ q.username = NoUser
               /\ (q.kind = "POST" /\ Done(r)) => q.status = 401
               /\ (q.kind = "GET" /\ allow_noauth) => ~Issued(r, "auth")

C20_Witness ==
    \E r \in Slots :
        /\ req[r].kind = "POST" /\ req[r].user = NoUser /\ allow_noauth
        /\ Done(r) /\ req[r].status = 401 /\ req[r].calls = <<"auth">>

====
